---- MODULE Spec2Model ----
(***************************************************************************)
(* Model of the debug-render adapter of bevy_rapier (src/render/mod.rs):   *)
(* the plugin and its builder, the DebugRenderContext resource, the        *)
(* per-line backend (drawing_enabled, object_color, draw_line) and the     *)
(* per-frame system debug_render_scene.                                    *)
(*                                                                         *)
(* Numbers.  f32 values are modelled by integers.  Coordinates and the     *)
(* physics scale are integers, so `x * scale` is exact.  The f32 division  *)
(* `len /= scale` rounds; it is modelled by integer division, which rounds *)
(* too, so that `(len / scale) * scale` differs from `len` for some        *)
(* inputs, as it does in f32.  Colour components are percentages (0..100)  *)
(* and hues are degrees (0..359).                                          *)
(***************************************************************************)
EXTENDS Integers, Sequences, FiniteSets, TLC

VARIABLES
    dim,             \* build feature: 2 ("dim2") or 3 ("dim3")
    pc,              \* "plugin" (not built yet), "idle" (between frames),
                     \* "render" (inside pipeline.render), "done" (system returned)
    plugin,          \* the RapierDebugRenderPlugin value
    render_context,  \* the DebugRenderContext resource
    physics_scale,   \* RapierContext::physics_scale
    custom_colors,   \* Query<&ColliderDebugColor>: entity -> Color or NoColor
    visible_colliders, \* Query<&ColliderDebug>: the set of entities carrying the marker
    backend,         \* the BevyLinesRenderBackend built for the current pass
    unscaled_style,  \* the local `unscaled_style` of debug_render_scene
    gizmos,          \* the draw sink: lines forwarded in the current frame
    calls,           \* history: the draw_line calls the traversal made this frame
    lookups,         \* history: store lookups made this frame
    pass,            \* history: enabled, global and style when the current pass started
    enabled_set      \* history: a caller wrote `enabled = true` after build

vars == << dim, pc, plugin, render_context, physics_scale, custom_colors,
           visible_colliders, backend, unscaled_style, gizmos, calls, lookups,
           pass, enabled_set >>

----------------------------------------------------------------------------
(* Bounds of the model. *)

\* The traversal emits at most MaxLines line segments per frame.
MaxLines == 2

(* Input domains. *)

\* Values of RapierContext::physics_scale.
Scales == {1, 2}
Entities == {7, 9}
NoColor == [space |-> "None", c |-> <<0, 0, 0, 0>>]
Rgba(r, g, b, a) == [space |-> "Rgba", c |-> <<r, g, b, a>>]
\* Colours a caller attaches with ColliderDebugColor.
CustomColors == {Rgba(100, 0, 0, 100), [space |-> "Hsla", c |-> <<240, 100, 50, 100>>]}
\* Default colours ([f32; 4], hsla) the upstream pipeline passes to draw_line.
DefaultColors == << <<30, 100, 40, 100>>, <<0, 0, 100, 50>> >>
\* The local `unscaled_style` and the backend outside a pass (no value).
NoStyle == [rigid_body_axes_length |-> 0, rest |-> "none"]
NoBackend == [physics_scale |-> 0, visible_colliders |-> "None"]
NoPass == [started |-> FALSE, enabled |-> FALSE, global |-> FALSE, style |-> NoStyle]
NoLookups == [optin |-> 0, color |-> 0]
\* DebugRenderMode values a caller may choose (bitflags, kept abstract).
Modes == {"default", "custom"}
\* Line segments (3D coordinates; a 2D build uses the first two components).
Segments == << << <<1, 2, 3>>, <<4, 5, 6>> >>, << <<-1, 0, 2>>, <<0, -3, 1>> >> >>
\* Collider handles the traversal may name; handle 3 is not in the collider set.
Handles == {1, 2, 3}

----------------------------------------------------------------------------
(* Values of the external libraries. *)

\* DebugRenderStyle::default() of rapier: the axis length and all other fields.
RapierDefaultStyle == [rigid_body_axes_length |-> 1, rest |-> "default"]
\* DebugRenderMode::default() of rapier.
RapierDefaultMode == "default"
\* A style a caller supplies instead of the default.
CustomStyle == [rigid_body_axes_length |-> 5, rest |-> "custom"]

\* DebugRenderPipeline::new(style, mode).
PipelineNew(style, mode) == [style |-> style, mode |-> mode]

\* f32 division, rounding (see the note on numbers).
DivF32(x, s) == x \div s

Max2(x, y) == IF x >= y THEN x ELSE y
Min2(x, y) == IF x <= y THEN x ELSE y

\* bevy's Color::as_hsla_f32: an Hsla colour is returned as it is, an Rgba
\* colour is converted (components in percent, hue in degrees).
AsHslaF32(color) ==
    IF color.space = "Hsla" THEN color.c
    ELSE LET r == color.c[1]
             g == color.c[2]
             b == color.c[3]
             x_max == Max2(r, Max2(g, b))
             x_min == Min2(r, Min2(g, b))
             lum2 == x_max + x_min            \* twice the luminance
             chroma == x_max - x_min
             sat == IF lum2 = 0 \/ lum2 = 200 THEN 0
                    ELSE ((2 * x_max - lum2) * 100) \div Min2(lum2, 200 - lum2)
             hue == IF chroma = 0 THEN 0
                    ELSE IF r = x_max THEN (60 * (g - b)) \div chroma
                    ELSE IF g = x_max THEN 120 + (60 * (b - r)) \div chroma
                    ELSE 240 + (60 * (r - g)) \div chroma
         IN << IF hue < 0 THEN 360 + hue ELSE hue, sat, lum2 \div 2, color.c[4] >>

\* bevy's Color::hsla(h, s, l, a).
ColorHsla(h, s, l, a) == [space |-> "Hsla", c |-> <<h, s, l, a>>]

----------------------------------------------------------------------------
(* The physics context (RapierContext). *)

\* rapier_context.colliders: handle -> user_data (u128, as its two u64 halves).
ContextColliders == [h \in {1, 2} |-> IF h = 1 THEN [hi |-> 0, lo |-> 7]
                                              ELSE [hi |-> 1, lo |-> 9]]
\* `co.user_data as u64`: the low 64 bits.
AsU64(user_data) == user_data.lo
\* Entity::from_bits.
EntityFromBits(bits) == bits

\* DebugRenderObject: the kind and the handle it carries.
Collider(h) == [kind |-> "Collider", handle |-> h]
OtherObjects == {[kind |-> "RigidBody", handle |-> 1]}
Objects == {Collider(h) : h \in Handles} \cup OtherObjects

\* Point<Real> of the build: 2 or 3 coordinates.
Pt(d, p) == SubSeq(p, 1, d)
Line(d, o, sg, col) ==
    [object |-> o, a |-> Pt(d, sg[1]), b |-> Pt(d, sg[2]), color |-> col]
\* The draw_line calls the upstream traversal may make: every object with the
\* first segment and default colour, one collider and the rigid body with
\* the second ones too.
UpstreamLines(d) ==
    { Line(d, o, Segments[1], DefaultColors[1]) : o \in Objects }
    \cup { Line(d, o, Segments[2], DefaultColors[2]) : o \in {Collider(1)} \cup OtherObjects }

----------------------------------------------------------------------------
(* RapierDebugRenderPlugin and DebugRenderContext. *)

\* impl Default for RapierDebugRenderPlugin (dim2 and dim3).
DefaultPlugin(d) ==
    IF d = 2
    THEN [enabled |-> TRUE, global |-> TRUE,
          style |-> [RapierDefaultStyle EXCEPT !.rigid_body_axes_length = 20],
          mode |-> RapierDefaultMode]
    ELSE [enabled |-> TRUE, global |-> TRUE,
          style |-> RapierDefaultStyle,
          mode |-> RapierDefaultMode]

\* RapierDebugRenderPlugin::disabled.
DisabledPlugin(p) == [p EXCEPT !.enabled = FALSE]

\* impl Default for DebugRenderContext.
DefaultContext ==
    [enabled |-> TRUE, global |-> TRUE,
     pipeline |-> PipelineNew(RapierDefaultStyle, RapierDefaultMode)]

\* Mutant of BuildContext: the resource starts enabled whatever the plugin says.
BuildContextEnabled(p) ==
    [enabled |-> TRUE, global |-> p.global,
     pipeline |-> PipelineNew(p.style, p.mode)]

\* The resource Plugin::build inserts.
BuildContext(p) ==
    [enabled |-> p.enabled, global |-> p.global,
     pipeline |-> PipelineNew(p.style, p.mode)]

----------------------------------------------------------------------------
(* BevyLinesRenderBackend. *)

IsCollider(object) == object.kind = "Collider"
\* self.context.colliders.get(h) is Some.
Resolves(h) == h \in DOMAIN ContextColliders
\* Entity::from_bits(co.user_data as u64) of the collider behind handle h.
EntityOf(h) == EntityFromBits(AsU64(ContextColliders[h]))

\* Mutant of ObjectColor: the override is used without the conversion to hsla.
ObjectColorNoConversion(colors, object, default) ==
    LET color == IF IsCollider(object) /\ Resolves(object.handle)
                 THEN IF EntityOf(object.handle) \in DOMAIN colors
                      THEN colors[EntityOf(object.handle)]
                      ELSE NoColor
                 ELSE NoColor
    IN IF color # NoColor THEN color.c ELSE default

\* object_color: the colour of the override table, converted to hsla, for a
\* collider whose handle resolves and whose entity has one; else the default.
ObjectColor(colors, object, default) ==
    LET color == IF IsCollider(object) /\ Resolves(object.handle)
                 THEN IF EntityOf(object.handle) \in DOMAIN colors
                      THEN colors[EntityOf(object.handle)]
                      ELSE NoColor
                 ELSE NoColor
    IN IF color # NoColor THEN AsHslaF32(color) ELSE default

\* Mutant of DrawingEnabled: a collider whose handle does not resolve is drawn.
DrawingEnabledUnresolvedShown(bk, visible, object) ==
    IF bk.visible_colliders = "None" THEN TRUE
    ELSE IF IsCollider(object)
         THEN IF Resolves(object.handle)
              THEN EntityOf(object.handle) \in visible
              ELSE TRUE
         ELSE TRUE

\* Mutant of DrawingEnabled: without `global` only opted-in colliders are drawn.
DrawingEnabledCollidersOnly(bk, visible, object) ==
    IF bk.visible_colliders = "None" THEN TRUE
    ELSE IF IsCollider(object)
         THEN IF Resolves(object.handle)
              THEN EntityOf(object.handle) \in visible
              ELSE FALSE
         ELSE FALSE

\* drawing_enabled: with no visibility query (global) everything is drawn;
\* else a collider is drawn iff its handle resolves and its entity carries
\* ColliderDebug, and every other object is drawn.
DrawingEnabled(bk, visible, object) ==
    IF bk.visible_colliders = "None" THEN TRUE
    ELSE IF IsCollider(object)
         THEN IF Resolves(object.handle)
              THEN EntityOf(object.handle) \in visible
              ELSE FALSE
         ELSE TRUE

\* The number of `visible_colliders.contains` calls drawing_enabled makes.
OptInLookups(bk, object) ==
    IF bk.visible_colliders = "Some" /\ IsCollider(object) /\ Resolves(object.handle)
    THEN 1 ELSE 0

\* The number of `custom_colors.get` calls object_color makes.
ColorLookups(object) ==
    IF IsCollider(object) /\ Resolves(object.handle) THEN 1 ELSE 0

\* Mutant of ScalePoint: the third coordinate is forwarded unscaled.
ScalePointUnscaledZ(d, p, scale) ==
    IF d = 2 THEN << p[1] * scale, p[2] * scale, 0 >>
             ELSE << p[1] * scale, p[2] * scale, p[3] >>

\* The endpoint handed to gizmos.line: every coordinate times the scale, the
\* third coordinate 0.0 in the 2D build.
ScalePoint(d, p, scale) ==
    IF d = 2 THEN << p[1] * scale, p[2] * scale, 0 >>
             ELSE << p[1] * scale, p[2] * scale, p[3] * scale >>

\* draw_line: the lines appended to the draw sink by one call (none or one).
DrawLine(d, bk, colors, visible, line) ==
    IF ~DrawingEnabled(bk, visible, line.object) THEN << >>
    ELSE LET scale == bk.physics_scale
             color == ObjectColor(colors, line.object, line.color)
         IN << [a |-> ScalePoint(d, line.a, scale),
                b |-> ScalePoint(d, line.b, scale),
                color |-> ColorHsla(color[1], color[2], color[3], color[4])] >>

\* The store lookups of one draw_line call.
DrawLineLookups(bk, visible, line) ==
    [optin |-> OptInLookups(bk, line.object),
     color |-> IF DrawingEnabled(bk, visible, line.object)
               THEN ColorLookups(line.object) ELSE 0]

----------------------------------------------------------------------------
(* debug_render_scene. *)

\* Mutant of ReturnsEarly: the check of `enabled` is missing.
ReturnsEarlyNever(ctx) == FALSE

\* `if !render_context.enabled { return; }`
ReturnsEarly(ctx) == ~ctx.enabled

\* Mutant of NewBackend: the visibility query is kept when `global` is set.
NewBackendAlwaysFiltered(ctx, scale) ==
    [physics_scale |-> scale, visible_colliders |-> "Some"]

\* The backend of the pass: no visibility query when `global` is set.
NewBackend(ctx, scale) ==
    [physics_scale |-> scale,
     visible_colliders |-> IF ctx.global THEN "None" ELSE "Some"]

\* Mutant of ScaleStyle: `*=` in place of `/=`.
ScaleStyleMultiplies(ctx, scale) ==
    [ctx EXCEPT !.pipeline.style.rigid_body_axes_length = @ * scale]

\* `render_context.pipeline.style.rigid_body_axes_length /= physics_scale`
ScaleStyle(ctx, scale) ==
    [ctx EXCEPT !.pipeline.style.rigid_body_axes_length = DivF32(@, scale)]

\* Mutant of RestoreStyle: the saved style is not written back.
RestoreStyleMissing(ctx, saved) == ctx

\* Mutant of RestoreStyle: a fresh pipeline is made from the saved style.
RestoreStyleNewPipeline(ctx, saved) ==
    [ctx EXCEPT !.pipeline = PipelineNew(saved, RapierDefaultMode)]

\* `render_context.pipeline.style = unscaled_style`
RestoreStyle(ctx, saved) == [ctx EXCEPT !.pipeline.style = saved]

----------------------------------------------------------------------------
(* The state machine. *)

Init ==
    /\ dim \in {2, 3}
    /\ pc = "plugin"
    /\ plugin = DefaultPlugin(dim)
    /\ render_context = DefaultContext
    /\ physics_scale \in Scales
    /\ custom_colors = << >>
    /\ visible_colliders = {}
    /\ backend = NoBackend
    /\ unscaled_style = NoStyle
    /\ gizmos = << >>
    /\ calls = << >>
    /\ lookups = NoLookups
    /\ pass = NoPass
    /\ enabled_set = FALSE

frame_vars == << backend, unscaled_style, gizmos, calls, lookups, pass >>
store_vars == << custom_colors, visible_colliders >>

\* The caller writes the plugin's public fields before adding it.
Customize ==
    /\ pc = "plugin"
    /\ \E g \in BOOLEAN, st \in {DefaultPlugin(dim).style, CustomStyle}, m \in Modes :
          plugin' = [plugin EXCEPT !.global = g, !.style = st, !.mode = m]
    /\ UNCHANGED << dim, pc, render_context, physics_scale, store_vars, frame_vars,
                    enabled_set >>

\* plugin.disabled()
Disabled ==
    /\ pc = "plugin"
    /\ plugin' = DisabledPlugin(plugin)
    /\ UNCHANGED << dim, pc, render_context, physics_scale, store_vars, frame_vars,
                    enabled_set >>

\* Plugin::build: the resource is inserted and the system is scheduled.
Build ==
    /\ pc = "plugin"
    /\ render_context' = BuildContext(plugin)
    /\ pc' = "idle"
    /\ UNCHANGED << dim, plugin, physics_scale, store_vars, frame_vars, enabled_set >>

\* A caller writes DebugRenderContext::enabled between frames.
SetEnabled ==
    /\ pc = "idle"
    /\ \E b \in BOOLEAN :
          /\ render_context' = [render_context EXCEPT !.enabled = b]
          /\ enabled_set' = (enabled_set \/ b)
    /\ UNCHANGED << dim, pc, plugin, physics_scale, store_vars, frame_vars >>

\* A caller writes DebugRenderContext::global between frames.
SetGlobal ==
    /\ pc = "idle"
    /\ \E b \in BOOLEAN : render_context' = [render_context EXCEPT !.global = b]
    /\ UNCHANGED << dim, pc, plugin, physics_scale, store_vars, frame_vars,
                    enabled_set >>

\* The ColliderDebug marker is attached to or removed from an entity.
ToggleColliderDebug ==
    /\ pc = "idle"
    /\ \E e \in Entities :
          visible_colliders' = IF e \in visible_colliders
                               THEN visible_colliders \ {e}
                               ELSE visible_colliders \cup {e}
    /\ UNCHANGED << dim, pc, plugin, render_context, physics_scale, custom_colors,
                    frame_vars, enabled_set >>

\* A ColliderDebugColor is attached to an entity (replacing any present).
InsertColliderDebugColor ==
    /\ pc = "idle"
    /\ \E e \in Entities, c \in CustomColors :
          custom_colors' = [x \in DOMAIN custom_colors \cup {e} |->
                               IF x = e THEN c ELSE custom_colors[x]]
    /\ UNCHANGED << dim, pc, plugin, render_context, physics_scale,
                    visible_colliders, frame_vars, enabled_set >>

\* A ColliderDebugColor is removed from an entity.
RemoveColliderDebugColor ==
    /\ pc = "idle"
    /\ \E e \in DOMAIN custom_colors :
          custom_colors' = [x \in DOMAIN custom_colors \ {e} |-> custom_colors[x]]
    /\ UNCHANGED << dim, pc, plugin, render_context, physics_scale,
                    visible_colliders, frame_vars, enabled_set >>

\* debug_render_scene with the overlay disabled: the early return.
FrameSkip ==
    /\ pc = "idle"
    /\ ReturnsEarly(render_context)
    /\ pass' = [started |-> TRUE, enabled |-> render_context.enabled,
                global |-> render_context.global,
                style |-> render_context.pipeline.style]
    /\ pc' = "done"
    /\ UNCHANGED << dim, plugin, render_context, physics_scale, store_vars, backend,
                    unscaled_style, gizmos, calls, lookups, enabled_set >>

\* debug_render_scene up to the call of pipeline.render: the backend is
\* built, the style is saved and the axis length is divided by the scale.
FrameBegin ==
    /\ pc = "idle"
    /\ ~ReturnsEarly(render_context)
    /\ pass' = [started |-> TRUE, enabled |-> render_context.enabled,
                global |-> render_context.global,
                style |-> render_context.pipeline.style]
    /\ backend' = NewBackend(render_context, physics_scale)
    /\ unscaled_style' = render_context.pipeline.style
    /\ render_context' = ScaleStyle(render_context, physics_scale)
    /\ pc' = "render"
    /\ UNCHANGED << dim, plugin, physics_scale, store_vars, gizmos, calls, lookups,
                    enabled_set >>

\* pipeline.render calls backend.draw_line for one line segment.
RenderLine ==
    /\ pc = "render"
    /\ Len(calls) < MaxLines
    /\ \E line \in UpstreamLines(dim) :
          LET out == DrawLine(dim, backend, custom_colors, visible_colliders, line)
              lk == DrawLineLookups(backend, visible_colliders, line)
          IN /\ gizmos' = gizmos \o out
             /\ calls' = Append(calls, [line |-> line, forwarded |-> Len(out),
                                        at |-> Len(gizmos) + Len(out)])
             /\ lookups' = [optin |-> lookups.optin + lk.optin,
                            color |-> lookups.color + lk.color]
    /\ UNCHANGED << dim, pc, plugin, render_context, physics_scale, store_vars,
                    backend, unscaled_style, pass, enabled_set >>

\* pipeline.render returns: the saved style is written back.
FrameEnd ==
    /\ pc = "render"
    /\ render_context' = RestoreStyle(render_context, unscaled_style)
    /\ pc' = "done"
    /\ UNCHANGED << dim, plugin, physics_scale, store_vars, backend, unscaled_style,
                    gizmos, calls, lookups, pass, enabled_set >>

\* The host engine renders the frame; the immediate-mode buffer and the
\* locals of the pass do not outlive it.
Present ==
    /\ pc = "done"
    /\ pc' = "idle"
    /\ backend' = NoBackend
    /\ unscaled_style' = NoStyle
    /\ gizmos' = << >>
    /\ calls' = << >>
    /\ lookups' = NoLookups
    /\ pass' = NoPass
    /\ UNCHANGED << dim, plugin, render_context, physics_scale, store_vars,
                    enabled_set >>

Next ==
    \/ Customize
    \/ Disabled
    \/ Build
    \/ SetEnabled
    \/ SetGlobal
    \/ ToggleColliderDebug
    \/ InsertColliderDebugColor
    \/ RemoveColliderDebugColor
    \/ FrameSkip
    \/ FrameBegin
    \/ RenderLine
    \/ FrameEnd
    \/ Present

Spec == Init /\ [][Next]_vars

----------------------------------------------------------------------------
(* Properties.  The statements below are written in the terms of the       *)
(* specification (identity, opt-in set, override table), not with the      *)
(* operators that model the backend.                                       *)

InPass == pc \in {"render", "done"} /\ pass.started
CallIds == 1..Len(calls)
IsColliderCall(i) == calls[i].line.object.kind = "Collider"
\* The handle of call i names a collider of the collider set.
HandleResolved(i) == calls[i].line.object.handle \in DOMAIN ContextColliders
\* The external identity decoded from the user-data of the collider of call i.
IdentityOf(i) == ContextColliders[calls[i].line.object.handle].lo
Drawn(i) == calls[i].forwarded = 1
\* The line call i forwarded to the draw sink.
Forwarded(i) == gizmos[calls[i].at]
\* The number of calls among the first n that forwarded a line.
\* Every call forwarded no line or one, appended to the sink in call order.
SinkInCallOrder ==
    /\ \A i \in CallIds :
          /\ calls[i].forwarded \in {0, 1}
          /\ calls[i].at = (IF i = 1 THEN 0 ELSE calls[i - 1].at) + calls[i].forwarded
    /\ Len(gizmos) = IF calls = << >> THEN 0 ELSE calls[Len(calls)].at
\* Visibility as the specification defines it.
VisibleBySpec(i) ==
    \/ ~IsColliderCall(i)
    \/ pass.global
    \/ HandleResolved(i) /\ IdentityOf(i) \in visible_colliders
HasOverride(i) ==
    IsColliderCall(i) /\ HandleResolved(i) /\ IdentityOf(i) \in DOMAIN custom_colors
DefaultColorOf(i) ==
    LET d == calls[i].line.color IN [space |-> "Hsla", c |-> <<d[1], d[2], d[3], d[4]>>]

\* C1: in a frame that starts with enabled = FALSE the pass makes no draw
\* call, no lookup in the opt-in set or the override table, and never
\* enters the upstream traversal (no draw_line call reaches the backend).
DisabledFrameDrawsNothing ==
    (pass.started /\ ~pass.enabled) =>
        /\ pc # "render"
        /\ gizmos = << >>
        /\ calls = << >>
        /\ lookups.optin = 0 /\ lookups.color = 0

DisabledFrameWitness ==
    /\ pc = "done" /\ pass.started /\ ~pass.enabled
    /\ ~render_context.global
    /\ visible_colliders # {} /\ DOMAIN custom_colors # {}

\* C2: with enabled = TRUE and global = FALSE a collider's line is drawn iff
\* its handle resolves and the identity is a member of the opt-in set.
OptInDecidesVisibility ==
    (InPass /\ pass.enabled /\ ~pass.global) =>
        /\ \A i \in CallIds : IsColliderCall(i) =>
              (Drawn(i) <=> (HandleResolved(i) /\ IdentityOf(i) \in visible_colliders))

OptInWitness ==
    /\ pc = "done" /\ pass.enabled /\ ~pass.global
    /\ \E i, j \in CallIds :
          /\ IsColliderCall(i) /\ HandleResolved(i) /\ Drawn(i)
          /\ IsColliderCall(j) /\ ~HandleResolved(j) /\ ~Drawn(j)

\* C3: with enabled = TRUE and global = TRUE every collider line is drawn,
\* whatever the opt-in set holds, and the opt-in set is not consulted.
GlobalDrawsEveryCollider ==
    (InPass /\ pass.enabled /\ pass.global) =>
        /\ \A i \in CallIds : IsColliderCall(i) => Drawn(i)
        /\ lookups.optin = 0

GlobalWitness ==
    /\ pc = "done" /\ pass.enabled /\ pass.global
    /\ visible_colliders # {}
    /\ \E i, j \in CallIds :
          /\ IsColliderCall(i) /\ ~HandleResolved(i) /\ Drawn(i)
          /\ IsColliderCall(j) /\ HandleResolved(j) /\ Drawn(j)
          /\ IdentityOf(j) \notin visible_colliders

\* C4: a drawn collider line carries the override colour of its identity
\* (in the sink's hsla form) when the override table has one, and the
\* upstream default colour, component for component, when it has none.
OverrideColorPreferred ==
    InPass =>
        \A i \in CallIds : (IsColliderCall(i) /\ Drawn(i)) =>
            IF HasOverride(i)
            THEN /\ Forwarded(i).color.space = "Hsla"
                 /\ Forwarded(i).color.c = AsHslaF32(custom_colors[IdentityOf(i)])
            ELSE Forwarded(i).color = DefaultColorOf(i)

OverrideColorWitness ==
    /\ pc = "done" /\ pass.global
    /\ \E i, j \in CallIds :
          /\ IsColliderCall(i) /\ Drawn(i) /\ HasOverride(i)
          /\ custom_colors[IdentityOf(i)].space = "Rgba"
          /\ Forwarded(i).color # DefaultColorOf(i)
          /\ IsColliderCall(j) /\ Drawn(j) /\ ~HasOverride(j)

AxisLengthRestored ==
    /\ (pc = "done" /\ pass.started) => render_context.pipeline.style = pass.style
    /\ pc \in {"idle", "done"} => render_context.pipeline.style = plugin.style

AxisLengthWitness ==
    /\ pc = "done" /\ pass.enabled
    /\ physics_scale > 1
    /\ pass.style.rigid_body_axes_length % physics_scale # 0
    /\ calls # << >>

\* C7: no step of a frame pass changes enabled, global, the mode, the opt-in
\* set or the override table.
FramePassReadsOnly ==
    [][pc' \in {"render", "done"} =>
          /\ render_context'.enabled = render_context.enabled
          /\ render_context'.global = render_context.global
          /\ render_context'.pipeline.mode = render_context.pipeline.mode
          /\ visible_colliders' = visible_colliders
          /\ custom_colors' = custom_colors]_vars

FramePassWitness ==
    /\ pc = "done" /\ pass.enabled
    /\ render_context.pipeline.mode # RapierDefaultMode
    /\ visible_colliders # {} /\ DOMAIN custom_colors # {}
    /\ gizmos # << >>

\* The point p times s, as a point of the sink (a missing coordinate is 0).
Times(p, s) == [k \in 1..3 |-> IF k <= Len(p) THEN p[k] * s ELSE 0]

\* C8: every line of a visible object is forwarded exactly once with every
\* coordinate multiplied by the physics scale (third coordinate 0 in the 2D
\* build); a line of an object that is not visible is not forwarded.
ScaleAndForward ==
    InPass =>
        /\ SinkInCallOrder
        /\ \A i \in CallIds :
              /\ Drawn(i) <=> VisibleBySpec(i)
              /\ Drawn(i) =>
                    /\ Forwarded(i).a = Times(calls[i].line.a, physics_scale)
                    /\ Forwarded(i).b = Times(calls[i].line.b, physics_scale)
                    /\ dim = 2 => Forwarded(i).a[3] = 0 /\ Forwarded(i).b[3] = 0

ScaleAndForwardWitness ==
    /\ pc = "done" /\ dim = 3 /\ physics_scale = 2
    /\ \E i \in CallIds :
          /\ calls[i].line.a = <<1, 2, 3>> /\ calls[i].line.b = <<4, 5, 6>>
          /\ Drawn(i)
          /\ Forwarded(i).a = <<2, 4, 6>> /\ Forwarded(i).b = <<8, 10, 12>>
    /\ \E j \in CallIds : ~Drawn(j)

\* C9: the plugin starts as the default plugin, enabled and global;
\* disabled() clears enabled and keeps global, style and mode; build()
\* installs enabled, global, style and mode of the plugin; a plugin built
\* disabled draws nothing until a caller sets enabled to TRUE.
PluginInitialization ==
    /\ plugin.enabled /\ plugin.global
    /\ [][Disabled =>
            /\ plugin'.enabled = FALSE
            /\ plugin'.global = plugin.global
            /\ plugin'.style = plugin.style
            /\ plugin'.mode = plugin.mode]_vars
    /\ [][(pc = "plugin" /\ pc' # "plugin") =>
            /\ render_context'.enabled = plugin.enabled
            /\ render_context'.global = plugin.global
            /\ render_context'.pipeline.style = plugin.style
            /\ render_context'.pipeline.mode = plugin.mode]_vars
    /\ []((pc # "plugin" /\ ~plugin.enabled /\ ~enabled_set) =>
            (pc # "render" /\ gizmos = << >> /\ calls = << >>))

PluginInitializationWitness ==
    /\ pc = "done" /\ pass.started
    /\ ~plugin.enabled /\ ~enabled_set
    /\ plugin.global # render_context.global
    /\ plugin.mode # RapierDefaultMode

\* C10: during the traversal of an enabled frame the axis length is the
\* length the pass started from divided by the physics scale, and the rest
\* of the style is as the pass found it.
AxisLengthScaledDuringTraversal ==
    pc = "render" =>
        /\ pass.enabled
        /\ render_context.pipeline.style.rigid_body_axes_length
              = pass.style.rigid_body_axes_length \div physics_scale
        /\ render_context.pipeline.style.rest = pass.style.rest
        /\ pass.style = plugin.style

AxisLengthScaledWitness ==
    /\ pc = "render" /\ calls # << >>
    /\ physics_scale > 1
    /\ pass.style.rigid_body_axes_length >= physics_scale
    /\ pass.style.rest # RapierDefaultStyle.rest
====
